---- MODULE Spec2Model ----
(***************************************************************************)
(* Model of iohub/multipagetiff.py: the Micro-Manager OME-TIFF readers.    *)
(*                                                                         *)
(*   MicromanagerOmeTiffReader  construction (glob check, _set_dtype,      *)
(*                              _set_mm_meta, _gather_index_maps, the      *)
(*                              optional up-front extraction) and the      *)
(*                              accessors get_image / get_zarr /           *)
(*                              get_array / get_num_positions;             *)
(*   _get_byte_offsets          as a pure function, also checked alone;    *)
(*   MMStack                    construction and the container protocol.   *)
(*                                                                         *)
(* Python sequences are 0-based, TLA+ sequences 1-based: page number n of  *)
(* the source is element n + 1 of the modelled arrays, and the page number *)
(* stored in an index entry is the source's 0-based number.                *)
(*                                                                         *)
(* Three specifications share the variables: Spec (the indexed reader),    *)
(* SpecOffsets (_get_byte_offsets on arbitrary raw arrays) and SpecMMStack *)
(* (the single-series reader).  Each leaves the other two parts at their   *)
(* idle values.                                                            *)
(***************************************************************************)
EXTENDS Integers, Sequences, FiniteSets, TLC

VARIABLES
    \* ---- the dataset directory (the environment of the indexed reader)
    disk,             \* files matched by "*.ome.tif", in glob order; each is its IndexMap
    \* ---- MicromanagerOmeTiffReader
    pc,               \* position in __init__: "start" ... "ready" | "failed"
    files,            \* self._files: indices into disk
    mm_meta,          \* self.mm_meta["Summary"] (the fields __init__ reads)
    coord_map,        \* self.coord_map: (p, t, c, z) -> <<file, page, offset>>
    positions, frames, channels, slices, height, width,
    dtype,            \* self.dtype
    position_arrays,  \* self.position_arrays: position -> array object
    next_id,          \* identity given to the next array object allocated
    tiff_opens,       \* number of TiffFile(...) opens performed so far
    last,             \* the last call on the reader and what it did
    \* ---- _get_byte_offsets checked alone
    raw,              \* meta["Offset"] handed to the function
    out,              \* what the call produced
    \* ---- MMStack
    data_path,        \* what the path given to MMStack(...) is on disk
    series,           \* axes -> size of series[0] of the first file
    mm,               \* the MMStack object
    mlast             \* the last call on the MMStack object and what it did

vars == <<disk, pc, files, mm_meta, coord_map, positions, frames, channels,
          slices, height, width, dtype, position_arrays, next_id, tiff_opens,
          last, raw, out, data_path, series, mm, mlast>>

readerVars == <<disk, pc, files, mm_meta, coord_map, positions, frames,
                channels, slices, height, width, dtype, position_arrays,
                next_id, tiff_opens, last>>

offsetVars == <<raw, out>>

stackVars == <<data_path, series, mm, mlast>>

----------------------------------------------------------------------------
(* Bounds of the model.                                                    *)

\* largest position / frame / channel / slice index a page may carry
MaxPos == 1
MaxFrame == 1
MaxChannel == 0
MaxSlice == 1
\* files in the directory, pages per file, pages in the whole dataset
MaxFiles == 2
MaxPagesPerFile == 2
MaxTotalPages == 3
\* raw byte offset of page n (0-based) when the page is present: (n + 1) * PageStride
PageStride == 1000
\* image size, and the larger of the counts the summary metadata may declare
ImageHeight == 2
ImageWidth == 3
MaxDeclared == 3
\* _get_byte_offsets alone: length of the raw array, largest raw value
MaxRawLen == 4
MaxRawOffset == 2
\* MMStack: largest size of an axis of the series, largest key tried
MaxAxisSize == 2
MaxKey == 2

----------------------------------------------------------------------------
(* Exceptions and call results.                                            *)

NoException == "none"

Ok(v) == [exc |-> NoException, value |-> v]

Raise(e) == [exc |-> e, value |-> <<>>]

Max(a, b) == IF a > b THEN a ELSE b

----------------------------------------------------------------------------
(* _get_byte_offsets                                                       *)

\* meta["Offset"][meta["Offset"] > 0]: a boolean-mask selection, which copies
PositiveOffsets(offset) == SelectSeq(offset, LAMBDA o : o > 0)

\* offsets[0] += 210 raises IndexError on an empty selection (index 0 is out
\* of bounds for axis 0 with size 0); offsets[1:] += 162 on an empty slice is
\* a no-op.
get_byte_offsets(meta) ==
    LET offsets == PositiveOffsets(meta.Offset)
    IN  IF Len(offsets) = 0
        THEN Raise("IndexError")
        ELSE Ok([i \in 1..Len(offsets) |->
                    IF i = 1 THEN offsets[i] + 210 ELSE offsets[i] + 162])

----------------------------------------------------------------------------
(* The datasets the reader is opened on.                                   *)

\* meta["Offset"] of a file of n pages: page i (1-based here) is either
\* absent (raw offset 0) or present at a positive raw offset
OffsetArrays(n) ==
    {[i \in 1..n |-> IF i \in present THEN i * PageStride ELSE 0] :
        present \in SUBSET (1..n)}

\* tf.micromanager_metadata["IndexMap"]: five parallel arrays of one length
IndexMaps(n) ==
    {[Position |-> p, Frame |-> f, Channel |-> c, Slice |-> s, Offset |-> o] :
        p \in [1..n -> 0..MaxPos], f \in [1..n -> 0..MaxFrame],
        c \in [1..n -> 0..MaxChannel], s \in [1..n -> 0..MaxSlice],
        o \in OffsetArrays(n)}

\* the directories of exactly k files with at most budget pages in all, each
\* file of 1..MaxPagesPerFile pages
RECURSIVE DatasetsOf(_, _)
DatasetsOf(k, budget) ==
    IF k = 0
    THEN {<<>>}
    ELSE UNION {{<<meta>> \o rest :
                    meta \in IndexMaps(n), rest \in DatasetsOf(k - 1, budget - n)} :
                n \in 1..(IF budget < MaxPagesPerFile THEN budget
                                                      ELSE MaxPagesPerFile)}

Datasets == UNION {DatasetsOf(k, MaxTotalPages) : k \in 0..MaxFiles}

\* mm_meta["Summary"]: the counts the acquisition declared, which may be
\* lower or higher than what was written; each sample understates one axis
\* and overstates another
Summaries ==
    {[Frames |-> n, Slices |-> MaxDeclared + 1 - n,
      Channels |-> MaxDeclared + 1 - n,
      Height |-> ImageHeight, Width |-> ImageWidth] : n \in {1, MaxDeclared}}

\* tf.pages[0].dtype of the first file
PixelType == "uint16"

----------------------------------------------------------------------------
(* _gather_index_maps                                                      *)

EmptyMap == <<>>

\* d[key] = value on a dict
Put(d, key, value) ==
    [k \in DOMAIN d \cup {key} |-> IF k = key THEN value ELSE d[k]]

\* the body of "for page, offset in enumerate(offsets)", from page on;
\* page counts the retained offsets from 0
RECURSIVE gather_pages(_, _, _, _, _)
gather_pages(acc, file, meta, offsets, page) ==
    IF page >= Len(offsets)
    THEN acc
    ELSE LET coord == <<meta.Position[page + 1], meta.Frame[page + 1],
                        meta.Channel[page + 1], meta.Slice[page + 1]>>
             step == [acc EXCEPT
                        !.coord_map = Put(@, coord, <<file, page, offsets[page + 1]>>),
                        !.positions = Max(@, coord[1] + 1),
                        !.frames = Max(@, coord[2] + 1),
                        !.channels = Max(@, coord[3] + 1),
                        !.slices = Max(@, coord[4] + 1)]
         IN  gather_pages(step, file, meta, offsets, page + 1)

\* the body of "for file in self._files", from the i-th file of fs on
RECURSIVE gather_files(_, _, _, _)
gather_files(acc, fs, dsk, i) ==
    IF i > Len(fs)
    THEN acc
    ELSE LET file == fs[i]
             meta == dsk[file]
             opened == [acc EXCEPT !.opens = @ + 1]
             r == get_byte_offsets(meta)
         IN  IF r.exc # NoException
             THEN [opened EXCEPT !.exc = r.exc]
             ELSE gather_files(gather_pages(opened, file, meta, r.value, 0),
                               fs, dsk, i + 1)

\* the loop of _gather_index_maps over the files fs of directory dsk, into
\* the dict cm; positions, frames, channels, slices are its locals
gather_index_maps(fs, dsk, cm) ==
    gather_files([coord_map |-> cm, positions |-> 0, frames |-> 0,
                  channels |-> 0, slices |-> 0, opens |-> 0,
                  exc |-> NoException],
                 fs, dsk, 1)

----------------------------------------------------------------------------
(* Planes, arrays and the accessors' helpers.                              *)

\* what a call did: the exception it raised (or none), what it returned, the
\* positions whose index it scanned (_get_dimensions) and the coordinates
\* whose plane it read (get_image)
Call(op, args, exc, result, scanned, read) ==
    [op |-> op, args |-> args, exc |-> exc, result |-> result,
     scanned |-> scanned, read |-> read]

NoResult == <<>>

\* a plane of zeros, as zarr.zeros leaves every chunk
ZeroPlane ==
    [kind |-> "zeros", file |-> 0, offset |-> 0,
     shape |-> <<height, width>>, dtype |-> dtype]

\* np.memmap(coord[0], dtype, "r", offset=coord[2], shape=(height, width)):
\* the pixels of the file at the byte offset
Memmap(file, offset) ==
    [kind |-> "memmap", file |-> file, offset |-> offset,
     shape |-> <<height, width>>, dtype |-> dtype]

\* get_image: self.coord_map[coord_key] raises KeyError on an absent key
get_image(p, t, c, z) ==
    IF <<p, t, c, z>> \notin DOMAIN coord_map
    THEN Raise("KeyError")
    ELSE LET coord == coord_map[<<p, t, c, z>>]
         IN  Ok(Memmap(coord[1], coord[3]))

SetMax(S) == CHOOSE x \in S : \A y \in S : y <= x

\* A plausible slip: the global extents instead of the position's own.
get_dimensions_global(position) == <<frames, channels, slices>>

\* _get_dimensions: running maxima of index + 1, from 0, over the keys of
\* coord_map under the position
get_dimensions(position) ==
    LET keys == {tup \in DOMAIN coord_map : tup[1] = position}
    IN  <<SetMax({0} \cup {tup[2] + 1 : tup \in keys}),
          SetMax({0} \cup {tup[3] + 1 : tup \in keys}),
          SetMax({0} \cup {tup[4] + 1 : tup \in keys})>>

\* the (t, c, z) indices of an array of that shape
Box(dims) == (0..(dims[1] - 1)) \X (0..(dims[2] - 1)) \X (0..(dims[3] - 1))

\* A plausible slip: the fill loop walks the dense array instead of the keys
\* of coord_map, so get_image raises KeyError on the first missing plane.
create_position_array_dense_fill(arrays, pos, id) ==
    LET dims == get_dimensions(pos)
        keys == {k \in DOMAIN coord_map : k[1] = pos}
        missing == {b \in Box(dims) : <<pos, b[1], b[2], b[3]>> \notin keys}
        array == [id |-> id,
                  shape |-> <<dims[1], dims[2], dims[3], height, width>>,
                  chunks |-> <<1, 1, 1, height, width>>,
                  dtype |-> dtype,
                  planes |-> [b \in Box(dims) |-> ZeroPlane]]
    IN  [exc |-> IF missing = {} THEN NoException ELSE "KeyError",
         arrays |-> Put(arrays, pos, array),
         scanned |-> {pos},
         read |-> keys]

\* _create_position_array on the cache `arrays`: a zero array of the
\* position's dimensions, then one get_image per key of the position written
\* to plane [t, c, z].  A write outside the array raises IndexError.
create_position_array(arrays, pos, id) ==
    LET dims == get_dimensions(pos)
        keys == {k \in DOMAIN coord_map : k[1] = pos}
        inside == {k \in keys : <<k[2], k[3], k[4]>> \in Box(dims)}
        array == [id |-> id,
                  shape |-> <<dims[1], dims[2], dims[3], height, width>>,
                  chunks |-> <<1, 1, 1, height, width>>,
                  dtype |-> dtype,
                  planes |-> [b \in Box(dims) |->
                                IF <<pos, b[1], b[2], b[3]>> \in inside
                                THEN get_image(pos, b[1], b[2], b[3]).value
                                ELSE ZeroPlane]]
    IN  [exc |-> IF inside = keys THEN NoException ELSE "IndexError",
         arrays |-> Put(arrays, pos, array),
         scanned |-> {pos},
         read |-> keys]

\* "for i in range(self.positions): self._create_position_array(i)", from i on
RECURSIVE extract_all(_, _, _)
extract_all(arrays, i, id) ==
    IF i >= positions
    THEN arrays
    ELSE extract_all(create_position_array(arrays, i, id).arrays, i + 1, id + 1)

----------------------------------------------------------------------------
(* MicromanagerOmeTiffReader.__init__, one action per step.                *)

Pending == Raise("pending")

IdleOffsets == raw = <<>> /\ out = Raise("idle")

IdleStack ==
    /\ data_path = "idle"
    /\ series = <<>>
    /\ mm = <<>>
    /\ mlast = <<>>

Init ==
    /\ disk \in Datasets
    /\ pc = "start"
    /\ files = <<>>
    /\ mm_meta = <<>>
    /\ coord_map = EmptyMap
    /\ positions = 0 /\ frames = 0 /\ channels = 0 /\ slices = 0
    /\ height = 0 /\ width = 0
    /\ dtype = "unset"
    /\ position_arrays = EmptyMap
    /\ next_id = 1
    /\ tiff_opens = 0
    /\ last = Call("none", <<>>, NoException, NoResult, {}, {})
    /\ IdleOffsets
    /\ IdleStack

Fail(exc) ==
    /\ pc' = "failed"
    /\ last' = Call("__init__", <<>>, exc, NoResult, {}, {})

\* A plausible slip: the initial check left out.
InitChecks_unchecked ==
    /\ pc = "start"
    /\ files' = [i \in 1..Len(disk) |-> i]
    /\ pc' = "dtype"
    /\ UNCHANGED <<disk, mm_meta, coord_map, positions, frames, channels,
                   slices, height, width, dtype, position_arrays, next_id,
                   tiff_opens, last>>
    /\ UNCHANGED <<offsetVars, stackVars>>

\* the initial check on the glob, then self._files and the empty attributes
InitChecks ==
    /\ pc = "start"
    /\ IF Len(disk) = 0
       THEN /\ Fail("ValueError")
            /\ UNCHANGED files
       ELSE /\ files' = [i \in 1..Len(disk) |-> i]
            /\ pc' = "dtype"
            /\ UNCHANGED last
    /\ UNCHANGED <<disk, mm_meta, coord_map, positions, frames, channels,
                   slices, height, width, dtype, position_arrays, next_id,
                   tiff_opens>>
    /\ UNCHANGED <<offsetVars, stackVars>>

\* _set_dtype: the dtype of the first page of self._files[0]
SetDtype ==
    /\ pc = "dtype"
    /\ IF Len(files) = 0
       THEN /\ Fail("IndexError")
            /\ UNCHANGED <<dtype, tiff_opens>>
       ELSE /\ dtype' = PixelType
            /\ tiff_opens' = tiff_opens + 1
            /\ pc' = "meta"
            /\ UNCHANGED last
    /\ UNCHANGED <<disk, files, mm_meta, coord_map, positions, frames,
                   channels, slices, height, width, position_arrays, next_id>>
    /\ UNCHANGED <<offsetVars, stackVars>>

\* _set_mm_meta: the summary metadata of self._files[0] seeds height, width,
\* frames, slices and channels (positions is not seeded).  The channel names
\* and stage positions it also stores are read by no accessor and are not
\* tracked.
SetMmMeta ==
    /\ pc = "meta"
    /\ \E summary \in Summaries :
        /\ mm_meta' = summary
        /\ height' = summary.Height
        /\ width' = summary.Width
        /\ frames' = summary.Frames
        /\ slices' = summary.Slices
        /\ channels' = summary.Channels
    /\ tiff_opens' = tiff_opens + 1
    /\ pc' = "gather"
    /\ UNCHANGED <<disk, files, coord_map, positions, dtype, position_arrays,
                   next_id, last>>
    /\ UNCHANGED <<offsetVars, stackVars>>

\* A plausible slip: the observed extents only raise the declared ones.
GatherIndexMaps_keeps_declared ==
    /\ pc = "gather"
    /\ LET r == gather_index_maps(files, disk, coord_map)
       IN  /\ coord_map' = r.coord_map
           /\ tiff_opens' = tiff_opens + r.opens
           /\ IF r.exc # NoException
              THEN /\ Fail(r.exc)
                   /\ UNCHANGED <<positions, frames, channels, slices>>
              ELSE /\ positions' = Max(positions, r.positions)
                   /\ frames' = Max(frames, r.frames)
                   /\ channels' = Max(channels, r.channels)
                   /\ slices' = Max(slices, r.slices)
                   /\ pc' = "extract"
                   /\ UNCHANGED last
    /\ UNCHANGED <<disk, files, mm_meta, height, width, dtype,
                   position_arrays, next_id>>
    /\ UNCHANGED <<offsetVars, stackVars>>

\* _gather_index_maps: the loop fills self.coord_map as it goes; the four
\* extents are assigned after the loop, so not when a file raises
GatherIndexMaps ==
    /\ pc = "gather"
    /\ LET r == gather_index_maps(files, disk, coord_map)
       IN  /\ coord_map' = r.coord_map
           /\ tiff_opens' = tiff_opens + r.opens
           /\ IF r.exc # NoException
              THEN /\ Fail(r.exc)
                   /\ UNCHANGED <<positions, frames, channels, slices>>
              ELSE /\ positions' = r.positions
                   /\ frames' = r.frames
                   /\ channels' = r.channels
                   /\ slices' = r.slices
                   /\ pc' = "extract"
                   /\ UNCHANGED last
    /\ UNCHANGED <<disk, files, mm_meta, height, width, dtype,
                   position_arrays, next_id>>
    /\ UNCHANGED <<offsetVars, stackVars>>

\* "if extract_data": every position's array is created up front
ExtractData(extract_data) ==
    /\ pc = "extract"
    /\ IF extract_data
       THEN /\ position_arrays' = extract_all(position_arrays, 0, next_id)
            /\ next_id' = next_id + positions
       ELSE UNCHANGED <<position_arrays, next_id>>
    /\ pc' = "ready"
    /\ last' = Call("__init__", <<>>, NoException, NoResult, {}, {})
    /\ UNCHANGED <<disk, files, mm_meta, coord_map, positions, frames,
                   channels, slices, height, width, dtype, tiff_opens>>
    /\ UNCHANGED <<offsetVars, stackVars>>

----------------------------------------------------------------------------
(* The accessors, on a constructed reader.                                 *)

\* the arguments the calls are tried with
CallPositions == 0..MaxPos

GetImage(p, t, c, z) ==
    /\ pc = "ready"
    /\ LET r == get_image(p, t, c, z)
       IN  last' = Call("get_image", <<p, t, c, z>>, r.exc, r.value, {},
                        {<<p, t, c, z>>})
    /\ UNCHANGED <<disk, pc, files, mm_meta, coord_map, positions, frames,
                   channels, slices, height, width, dtype, position_arrays,
                   next_id, tiff_opens>>
    /\ UNCHANGED <<offsetVars, stackVars>>

\* returns the cached array object itself
SameObject(array) == array

\* np.array(...): a new dense array with the cached array's content
DenseCopy(array) ==
    [shape |-> array.shape, dtype |-> array.dtype, planes |-> array.planes]

\* what the accessor returns of the position's array
Returned(op, array) ==
    IF op = "get_array" THEN DenseCopy(array) ELSE SameObject(array)

\* the shared head of get_zarr and get_array: create the position's array
\* when the cache has none
Materialize(op, position) ==
    /\ pc = "ready"
    /\ IF position \notin DOMAIN position_arrays
       THEN LET r == create_position_array(position_arrays, position, next_id)
            IN  /\ position_arrays' = r.arrays
                /\ next_id' = next_id + 1
                /\ last' = Call(op, <<position>>, r.exc,
                                IF r.exc = NoException
                                THEN Returned(op, r.arrays[position]) ELSE NoResult,
                                r.scanned, r.read)
       ELSE /\ last' = Call(op, <<position>>, NoException,
                            Returned(op, position_arrays[position]), {}, {})
            /\ UNCHANGED <<position_arrays, next_id>>
    /\ UNCHANGED <<disk, pc, files, mm_meta, coord_map, positions, frames,
                   channels, slices, height, width, dtype, tiff_opens>>
    /\ UNCHANGED <<offsetVars, stackVars>>

\* A plausible slip: the cache test left out, so every call creates anew.
MaterializeAlways(op, position) ==
    /\ pc = "ready"
    /\ LET r == create_position_array(position_arrays, position, next_id)
       IN  /\ position_arrays' = r.arrays
           /\ next_id' = next_id + 1
           /\ last' = Call(op, <<position>>, r.exc,
                           IF r.exc = NoException
                           THEN Returned(op, r.arrays[position]) ELSE NoResult,
                           r.scanned, r.read)
    /\ UNCHANGED <<disk, pc, files, mm_meta, coord_map, positions, frames,
                   channels, slices, height, width, dtype, tiff_opens>>
    /\ UNCHANGED <<offsetVars, stackVars>>

GetZarr_uncached(position) == MaterializeAlways("get_zarr", position)

GetZarr(position) == Materialize("get_zarr", position)

GetArray_uncached(position) == MaterializeAlways("get_array", position)

GetArray(position) == Materialize("get_array", position)

GetNumPositions ==
    /\ pc = "ready"
    /\ last' = Call("get_num_positions", <<>>, NoException, positions, {}, {})
    /\ UNCHANGED <<disk, pc, files, mm_meta, coord_map, positions, frames,
                   channels, slices, height, width, dtype, position_arrays,
                   next_id, tiff_opens>>
    /\ UNCHANGED <<offsetVars, stackVars>>

Next ==
    \/ InitChecks
    \/ SetDtype
    \/ SetMmMeta
    \/ GatherIndexMaps
    \/ \E extract_data \in BOOLEAN : ExtractData(extract_data)
    \/ \E p \in CallPositions, t \in 0..MaxFrame, c \in 0..MaxChannel,
          z \in 0..MaxSlice : GetImage(p, t, c, z)
    \/ \E position \in CallPositions : GetZarr(position)
    \/ \E position \in CallPositions : GetArray(position)
    \/ GetNumPositions

Spec == Init /\ [][Next]_vars

----------------------------------------------------------------------------
(* _get_byte_offsets alone, on arbitrary raw offset arrays.                *)

IdleReader ==
    /\ disk = <<>>
    /\ pc = "idle"
    /\ files = <<>>
    /\ mm_meta = <<>>
    /\ coord_map = EmptyMap
    /\ positions = 0 /\ frames = 0 /\ channels = 0 /\ slices = 0
    /\ height = 0 /\ width = 0
    /\ dtype = "unset"
    /\ position_arrays = EmptyMap
    /\ next_id = 1
    /\ tiff_opens = 0
    /\ last = Call("none", <<>>, NoException, NoResult, {}, {})

RawArrays ==
    UNION {[1..n -> (-1)..MaxRawOffset] : n \in 0..MaxRawLen}

InitOffsets ==
    /\ raw \in RawArrays
    /\ out = Pending
    /\ IdleReader
    /\ IdleStack

CallGetByteOffsets ==
    /\ out = Pending
    /\ out' = get_byte_offsets([Offset |-> raw])
    /\ UNCHANGED raw
    /\ UNCHANGED <<readerVars, stackVars>>

NextOffsets == CallGetByteOffsets

SpecOffsets == InitOffsets /\ [][NextOffsets]_vars

----------------------------------------------------------------------------
(* MMStack                                                                 *)

\* what data_path is on disk
PathKinds ==
    {"missing", "file_ome_tif", "file_other", "dir_with_ome_tif",
     "dir_without_ome_tif"}

Axes == <<"R", "T", "C", "Z", "Y", "X">>

\* zip(series.get_axes(), series.get_shape()) of the first file: Y and X are
\* always there, each of R, T, C, Z may be missing
SeriesShapes ==
    {[ax \in present \cup {"Y", "X"} |->
        IF ax = "Y" THEN ImageHeight
        ELSE IF ax = "X" THEN ImageWidth ELSE size[ax]] :
        present \in SUBSET {"R", "T", "C", "Z"},
        size \in [{"R", "T", "C", "Z"} -> 1..MaxAxisSize]}

MCall(op, args, exc, result) ==
    [op |-> op, args |-> args, exc |-> exc, result |-> result]

Unbuilt ==
    [state |-> "unbuilt", first_tif |-> "none", tif_opens |-> 0,
     dims |-> <<>>, xdata |-> <<>>, asdask |-> FALSE]

InitMMStack ==
    /\ data_path \in PathKinds
    /\ series = <<>>
    /\ mm = Unbuilt
    /\ mlast = MCall("none", <<>>, NoException, NoResult)
    /\ IdleReader
    /\ IdleOffsets

\* the if / elif of __init__: the exception it raises, or none when
\* first_file is bound.  With neither branch taken first_file is unbound and
\* line 51 raises UnboundLocalError.
first_file_of(path) ==
    CASE path = "file_ome_tif" -> Ok("first_file")
      [] path = "file_other" -> Raise("ValueError")
      [] path = "dir_with_ome_tif" -> Ok("first_file")
      [] path = "dir_without_ome_tif" -> Raise("FileNotFoundError")
      [] OTHER -> Raise("UnboundLocalError")

\* _parse_data: dims[ax] = raw_dims.get(ax) or 1; xdata has the six axes in
\* canonical order
parse_data(raw_dims) ==
    [i \in 1..Len(Axes) |->
        IF Axes[i] \in DOMAIN raw_dims /\ raw_dims[Axes[i]] # 0
        THEN raw_dims[Axes[i]] ELSE 1]

MMStackInit(dask_item) ==
    /\ mm.state = "unbuilt"
    /\ LET r == first_file_of(data_path)
       IN  IF r.exc # NoException
           THEN /\ mm' = [mm EXCEPT !.state = "failed"]
                /\ mlast' = MCall("__init__", <<>>, r.exc, NoResult)
                /\ UNCHANGED series
           ELSE \E shape \in SeriesShapes :
                /\ series' = shape
                /\ mm' = [state |-> "built", first_tif |-> "open",
                          tif_opens |-> 1, dims |-> parse_data(shape),
                          xdata |-> [dims |-> Axes, shape |-> parse_data(shape)],
                          asdask |-> dask_item]
                /\ mlast' = MCall("__init__", <<>>, NoException, NoResult)
    /\ UNCHANGED data_path
    /\ UNCHANGED <<readerVars, offsetVars>>

\* self.positions
StackLen ==
    /\ mm.state = "built"
    /\ mlast' = MCall("__len__", <<>>, NoException, mm.dims[1])
    /\ UNCHANGED <<data_path, series, mm>>
    /\ UNCHANGED <<readerVars, offsetVars>>

\* self.xdata.sel(R=key), for a key of the R axis
StackGetItem(key) ==
    /\ mm.state = "built"
    /\ key < mm.dims[1]
    /\ mlast' = MCall("__getitem__", <<key>>, NoException,
                      [R |-> key, shape |-> Tail(mm.xdata.shape),
                       dask |-> mm.asdask])
    /\ UNCHANGED <<data_path, series, mm>>
    /\ UNCHANGED <<readerVars, offsetVars>>

\* reader[key] = value
StackSetItem(key, value) ==
    /\ mm.state = "built"
    /\ mlast' = MCall("__setitem__", <<key, value>>, "PermissionError", NoResult)
    /\ UNCHANGED <<data_path, series, mm>>
    /\ UNCHANGED <<readerVars, offsetVars>>

\* del reader[key]: the interpreter calls __delitem__(self, key); the method
\* is declared __delitem__(self, key, value), so the call itself raises
\* TypeError (missing positional argument 'value') and the body never runs
StackDelItem(key) ==
    /\ mm.state = "built"
    /\ mlast' = MCall("__delitem__", <<key>>, "TypeError", NoResult)
    /\ UNCHANGED <<data_path, series, mm>>
    /\ UNCHANGED <<readerVars, offsetVars>>

\* key in self.xdata.R
StackContains(key) ==
    /\ mm.state = "built"
    /\ mlast' = MCall("__contains__", <<key>>, NoException, key < mm.dims[1])
    /\ UNCHANGED <<data_path, series, mm>>
    /\ UNCHANGED <<readerVars, offsetVars>>

\* self._first_tif.close()
StackClose ==
    /\ mm.state = "built"
    /\ mm' = [mm EXCEPT !.first_tif = "closed"]
    /\ mlast' = MCall("close", <<>>, NoException, NoResult)
    /\ UNCHANGED <<data_path, series>>
    /\ UNCHANGED <<readerVars, offsetVars>>

NextMMStack ==
    \/ \E dask_item \in BOOLEAN : MMStackInit(dask_item)
    \/ StackLen
    \/ \E key \in 0..MaxKey : StackGetItem(key)
    \/ \E key \in 0..MaxKey, value \in {"v"} : StackSetItem(key, value)
    \/ \E key \in 0..MaxKey : StackDelItem(key)
    \/ \E key \in 0..MaxKey : StackContains(key)
    \/ StackClose

SpecMMStack == InitMMStack /\ [][NextMMStack]_vars

----------------------------------------------------------------------------
(* Properties.                                                             *)

\* number of positive entries of a raw offset array
NumPositive(a) == Cardinality({i \in DOMAIN a : a[i] > 0})

\* index (1-based) of the j-th positive entry of a
IndexOfPositive(a, j) ==
    CHOOSE i \in DOMAIN a :
        a[i] > 0 /\ Cardinality({m \in 1..i : a[m] > 0}) = j

\* C1: for every raw Offset array with k >= 0 positive entries,
\* _get_byte_offsets returns a list of length exactly k holding the positive
\* entries in their order, the first increased by 210 and the others by 162.
\* (Checked under SpecOffsets; the code raises IndexError when k = 0.)
C1_ByteOffsetCorrection ==
    out # Pending =>
        LET k == NumPositive(raw)
        IN  /\ out.exc = NoException
            /\ Len(out.value) = k
            /\ \A j \in 1..k :
                out.value[j] = raw[IndexOfPositive(raw, j)]
                               + (IF j = 1 THEN 210 ELSE 162)

\* The same statement for the arrays with at least one positive entry, which
\* is what the code does.
ByteOffsetCorrectionSomePositive ==
    (out # Pending /\ NumPositive(raw) >= 1) =>
        LET k == NumPositive(raw)
        IN  /\ out.exc = NoException
            /\ Len(out.value) = k
            /\ \A j \in 1..k :
                out.value[j] = raw[IndexOfPositive(raw, j)]
                               + (IF j = 1 THEN 210 ELSE 162)

\* The call on an array without a positive entry raises IndexError.
ByteOffsetsNonePositive ==
    (out # Pending /\ NumPositive(raw) = 0) => out.exc = "IndexError"

Keys == DOMAIN coord_map

\* C2: after construction each of positions, frames, channels, slices equals
\* 1 + the largest index observed on its axis over the keys of coord_map,
\* whatever the summary metadata declared, so every key lies inside the
\* extents.
C2_ExtentsFromObservedIndex ==
    pc = "ready" =>
        /\ Keys # {}
        /\ positions = 1 + SetMax({k[1] : k \in Keys})
        /\ frames = 1 + SetMax({k[2] : k \in Keys})
        /\ channels = 1 + SetMax({k[3] : k \in Keys})
        /\ slices = 1 + SetMax({k[4] : k \in Keys})
        /\ \A k \in Keys :
            k[1] < positions /\ k[2] < frames /\ k[3] < channels /\ k[4] < slices

\* a constructed reader whose summary understated the frames and overstated
\* the slices
C2_Witness ==
    /\ pc = "ready"
    /\ mm_meta.Frames < frames
    /\ mm_meta.Slices > slices
    /\ mm_meta.Channels > channels

\* C3: for a position p below get_num_positions(), get_array(p) and
\* get_zarr(p) do not raise, and every plane [t, c, z] of the returned array
\* whose coordinate (p, t, c, z) is not a key of coord_map is all zeros, of
\* shape (height, width) and of the reader's dtype.
C3_MissingCoordinateFill ==
    (pc = "ready" /\ last.op \in {"get_zarr", "get_array"}
                  /\ last.args[1] < positions) =>
        /\ last.exc = NoException
        /\ \A b \in Box(last.result.shape) :
            <<last.args[1], b[1], b[2], b[3]>> \notin Keys =>
                /\ last.result.planes[b].kind = "zeros"
                /\ last.result.planes[b].shape = <<height, width>>
                /\ last.result.planes[b].dtype = dtype

\* get_array returned an array with a plane that no page backs
C3_Witness ==
    /\ pc = "ready"
    /\ last.op = "get_array"
    /\ last.args[1] < positions
    /\ last.exc = NoException
    /\ \E b \in Box(last.result.shape) :
        /\ <<last.args[1], b[1], b[2], b[3]>> \notin Keys
        /\ last.result.planes[b].kind = "zeros"

\* C4: get_zarr(p) on a position already cached returns the cached array
\* object itself, scans no index and reads no plane; and no call replaces or
\* removes a cached array object, so the object is the one the first call
\* returned.
C4_GetZarrIdempotent ==
    [][/\ \A p \in DOMAIN position_arrays :
            /\ p \in DOMAIN position_arrays'
            /\ position_arrays'[p].id = position_arrays[p].id
       /\ (last'.op = "get_zarr" /\ last'.args[1] \in DOMAIN position_arrays) =>
            /\ last'.exc = NoException
            /\ last'.result = position_arrays[last'.args[1]]
            /\ last'.scanned = {}
            /\ last'.read = {}
            /\ position_arrays' = position_arrays]_vars

\* a get_zarr served from the cache while another position is cached too
C4_Witness ==
    /\ pc = "ready"
    /\ last.op = "get_zarr"
    /\ last.scanned = {}
    /\ last.result = position_arrays[last.args[1]]
    /\ Cardinality(DOMAIN position_arrays) >= 2
    /\ Keys # {}

\* C5: every reader[key] = value and every del reader[key] on an MMStack
\* raises PermissionError and leaves the reader as it was.  (Checked under
\* SpecMMStack; del raises TypeError.)
C5_ReadOnlyEnforced ==
    [][mlast'.op \in {"__setitem__", "__delitem__"} =>
            /\ mlast'.exc = "PermissionError"
            /\ mm' = mm]_vars

\* What the code does on the two calls: both raise and leave the reader as
\* it was, the write with PermissionError, the delete with TypeError.
WriteAndDeleteRaise ==
    [][/\ mlast'.op = "__setitem__" => (mlast'.exc = "PermissionError" /\ mm' = mm)
       /\ mlast'.op = "__delitem__" => (mlast'.exc = "TypeError" /\ mm' = mm)]_vars

\* C6 as stated: on a folder without a "*.ome.tif" file the constructor fails
\* with a not-found error, before any file is opened or any metadata read.
C6_NoFilesNotFoundError ==
    (Len(disk) = 0 /\ pc # "start") =>
        /\ pc = "failed"
        /\ last.exc = "FileNotFoundError"
        /\ tiff_opens = 0
        /\ mm_meta = <<>>

\* C6 as amended: on a folder without a "*.ome.tif" file the constructor
\* fails at once with ValueError, before any file is opened or any metadata
\* read, and no reader is returned (the accessors need pc = "ready").
C6_NoFilesValueError ==
    (Len(disk) = 0 /\ pc # "start") =>
        /\ pc = "failed"
        /\ last.op = "__init__"
        /\ last.exc = "ValueError"
        /\ tiff_opens = 0
        /\ mm_meta = <<>>
        /\ dtype = "unset"
        /\ Keys = {}
        /\ DOMAIN position_arrays = {}

\* the constructor has run on an empty folder
C6_Witness ==
    /\ Len(disk) = 0
    /\ pc = "failed"
    /\ last.op = "__init__"

BadPaths == {"missing", "file_other", "dir_without_ome_tif"}

\* C7: MMStack(data_path) on a missing path, on a file not named "ome.tif" or
\* on a directory without "*.ome.tif" raises FileNotFoundError or ValueError
\* and nothing else, before any TIFF file is opened.  (Checked under
\* SpecMMStack; a missing path raises UnboundLocalError.)
C7_BadPathRaises ==
    (data_path \in BadPaths /\ mm.state # "unbuilt") =>
        /\ mm.state = "failed"
        /\ mlast.exc \in {"FileNotFoundError", "ValueError"}
        /\ mm.tif_opens = 0

\* What the code does on the three kinds of bad path.
BadPathExceptions ==
    (data_path \in BadPaths /\ mm.state # "unbuilt") =>
        /\ mm.state = "failed"
        /\ mm.tif_opens = 0
        /\ mlast.exc = CASE data_path = "missing" -> "UnboundLocalError"
                         [] data_path = "file_other" -> "ValueError"
                         [] data_path = "dir_without_ome_tif" -> "FileNotFoundError"

\* C8: once the reader is constructed no call changes coord_map, the
\* extents or dtype; only position_arrays changes, and only by gaining
\* positions: a cached array is neither removed nor replaced.
C8_ReadOnlyAfterConstruction ==
    [][pc = "ready" =>
            /\ pc' = "ready"
            /\ coord_map' = coord_map
            /\ <<positions, frames, channels, slices, height, width>>'
                 = <<positions, frames, channels, slices, height, width>>
            /\ dtype' = dtype
            /\ <<disk, files, mm_meta, tiff_opens>>' = <<disk, files, mm_meta, tiff_opens>>
            /\ \A p \in DOMAIN position_arrays :
                /\ p \in DOMAIN position_arrays'
                /\ position_arrays'[p] = position_arrays[p]]_vars

\* a call that raised on a reader with a cached position, after a get_array
\* has been served
C8_Witness ==
    /\ pc = "ready"
    /\ last.op = "get_image"
    /\ last.exc = "KeyError"
    /\ Cardinality(DOMAIN position_arrays) >= 2

\* the retained pages of a file: the 1-based indices whose raw offset is > 0
Retained(meta) == {i \in DOMAIN meta.Offset : meta.Offset[i] > 0}

\* the corrected offset of page i of the file
Corrected(meta, i) ==
    meta.Offset[i]
    + (IF \A m \in Retained(meta) : i <= m THEN 210 ELSE 162)

PageCoord(meta, i) ==
    <<meta.Position[i], meta.Frame[i], meta.Channel[i], meta.Slice[i]>>

\* page j of file g is scanned after page i of file f
ScannedAfter(g, j, f, i) == g > f \/ (g = f /\ j > i)

\* C9: for every file and every page i whose raw Offset[i] is > 0 the index
\* holds (file, i, corrected offset of page i) under the coordinate read at
\* page i, also when pages with Offset <= 0 precede it; the entry may only
\* have been overwritten by a retained page of the same coordinate scanned
\* later.  (The code pairs the n-th retained offset with page n.)
C9_CoordinatePageAligned ==
    pc = "ready" =>
        \A f \in 1..Len(disk) : \A i \in Retained(disk[f]) :
            LET coord == PageCoord(disk[f], i)
            IN  /\ coord \in Keys
                /\ \/ coord_map[coord] = <<f, i - 1, Corrected(disk[f], i)>>
                   \/ \E g \in 1..Len(disk) : \E j \in Retained(disk[g]) :
                        /\ ScannedAfter(g, j, f, i)
                        /\ PageCoord(disk[g], j) = coord

\* What the code does: the n-th retained offset (n from 0) is stored with
\* page number n under the coordinates of page n.
RetainedOffsetPairedWithItsRank ==
    pc = "ready" =>
        \A coord \in Keys :
            LET e == coord_map[coord]
                meta == disk[e[1]]
                kept == PositiveOffsets(meta.Offset)
            IN  /\ e[2] + 1 <= Len(kept)
                /\ PageCoord(meta, e[2] + 1) = coord
                /\ e[3] = kept[e[2] + 1] + (IF e[2] = 0 THEN 210 ELSE 162)

PositionKeys(p) == {k \in Keys : k[1] = p}

\* 1 + the largest index on an axis over the keys, 0 without keys
ExtentOf(keys, axis) ==
    IF keys = {} THEN 0 ELSE 1 + SetMax({k[axis] : k \in keys})

\* C10: the array of position p has shape (t_p, c_p, z_p, height, width)
\* with t_p, c_p, z_p each 1 + the largest time, channel, slice index over
\* the keys of position p (0 without keys), not the global extents; so every
\* key (p, t, c, z) lies inside it and plane [t, c, z] holds the pixels read
\* for that key.
C10_PerPositionExtents ==
    \A p \in DOMAIN position_arrays :
        LET array == position_arrays[p]
        IN  /\ array.shape = <<ExtentOf(PositionKeys(p), 2),
                               ExtentOf(PositionKeys(p), 3),
                               ExtentOf(PositionKeys(p), 4), height, width>>
            /\ \A k \in PositionKeys(p) :
                /\ <<k[2], k[3], k[4]>> \in DOMAIN array.planes
                /\ array.planes[<<k[2], k[3], k[4]>>].kind = "memmap"
                /\ array.planes[<<k[2], k[3], k[4]>>].file = coord_map[k][1]
                /\ array.planes[<<k[2], k[3], k[4]>>].offset = coord_map[k][3]

\* a cached position that has keys and fewer frames than the dataset
C10_Witness ==
    /\ pc = "ready"
    /\ \E p \in DOMAIN position_arrays :
        /\ PositionKeys(p) # {}
        /\ position_arrays[p].shape[1] < frames
        /\ position_arrays[p].shape[3] = slices

\* a cached position without any key: its array is empty
CachedPositionWithoutKeys ==
    /\ pc = "ready"
    /\ \E p \in DOMAIN position_arrays :
        /\ PositionKeys(p) = {}
        /\ position_arrays[p].shape = <<0, 0, 0, height, width>>

\* the orderings of the files fs: what glob may return for the directory
Orderings(fs) ==
    {[i \in 1..Len(fs) |-> fs[perm[i]]] :
        perm \in {q \in [1..Len(fs) -> 1..Len(fs)] :
                    \A i, j \in 1..Len(fs) : i # j => q[i] # q[j]}}

\* the file of S that the ordering scans last
LastScanned(order, S) ==
    order[SetMax({i \in 1..Len(order) : order[i] \in S})]

\* the files that hold a page for the coordinate: a page whose raw offset is
\* > 0 and whose four index arrays give the coordinate
FilesHolding(coord) ==
    {f \in 1..Len(disk) :
        \E i \in Retained(disk[f]) : PageCoord(disk[f], i) = coord}

\* the files from which the scan records the coordinate: the n-th retained
\* offset is stored under the coordinate of page n
FilesRecording(coord) ==
    {f \in 1..Len(disk) :
        \E n \in 1..NumPositive(disk[f].Offset) : PageCoord(disk[f], n) = coord}

\* C11: for every ordering of the same files _gather_index_maps raises
\* nothing and gives the same extents and the same key set of coord_map as
\* the ordering the reader was built with; the entry of a coordinate held by
\* only one file is the same in both, and the entry of a coordinate held by
\* several files is the one of the file scanned last.  (Fails through the
\* pairing of C9: a file may record a coordinate of a page it does not hold.)
C11_ScanOrderIndependent ==
    pc = "ready" =>
        \A order \in Orderings(files) :
            LET r == gather_index_maps(order, disk, EmptyMap)
            IN  /\ r.exc = NoException
                /\ <<r.positions, r.frames, r.channels, r.slices>>
                     = <<positions, frames, channels, slices>>
                /\ DOMAIN r.coord_map = Keys
                /\ \A coord \in Keys :
                    /\ Cardinality(FilesHolding(coord)) = 1 =>
                            r.coord_map[coord] = coord_map[coord]
                    /\ Cardinality(FilesHolding(coord)) > 1 =>
                            /\ r.coord_map[coord][1]
                                 = LastScanned(order, FilesHolding(coord))
                            /\ coord_map[coord][1]
                                 = LastScanned(files, FilesHolding(coord))

\* What the code does: the same statement with "the files from which the
\* scan records the coordinate" in place of "the files that hold a page for
\* the coordinate".
ScanOrderIndependentAsRecorded ==
    pc = "ready" =>
        \A order \in Orderings(files) :
            LET r == gather_index_maps(order, disk, EmptyMap)
            IN  /\ r.exc = NoException
                /\ <<r.positions, r.frames, r.channels, r.slices>>
                     = <<positions, frames, channels, slices>>
                /\ DOMAIN r.coord_map = Keys
                /\ \A coord \in Keys :
                    /\ FilesRecording(coord) # {}
                    /\ Cardinality(FilesRecording(coord)) = 1 =>
                            r.coord_map[coord] = coord_map[coord]
                    /\ r.coord_map[coord][1]
                         = LastScanned(order, FilesRecording(coord))
                    /\ coord_map[coord][1]
                         = LastScanned(files, FilesRecording(coord))

\* The extents and the key set alone do not depend on the ordering.
ExtentsAndKeysOrderIndependent ==
    pc = "ready" =>
        \A order \in Orderings(files) :
            LET r == gather_index_maps(order, disk, EmptyMap)
            IN  /\ r.exc = NoException
                /\ <<r.positions, r.frames, r.channels, r.slices>>
                     = <<positions, frames, channels, slices>>
                /\ DOMAIN r.coord_map = Keys

\* a reader built on two files that record one coordinate both, so that the
\* other ordering keeps another entry
TwoFilesRecordOneCoordinate ==
    /\ pc = "ready"
    /\ \E coord \in Keys : Cardinality(FilesRecording(coord)) > 1
    /\ \E order \in Orderings(files) :
        gather_index_maps(order, disk, EmptyMap).coord_map # coord_map

====
